---- MODULE Spec2Model ----
(***************************************************************************)
(* Model of the session and messaging core of the CodeGame go-server      *)
(* library (package cg): one Game with its players, player sockets,       *)
(* spectator sockets, missed-event buffers and command queue.             *)
(*                                                                         *)
(* The specifications share the variables:                                *)
(*   SpecSend   - Player.Send / Game.Send against addSocket / disconnect  *)
(*   SpecCmd    - the socket read loops feeding the command queue         *)
(*   SpecBurst  - a burst of commands that fills the command queue        *)
(*   SpecClose  - concurrent Game.Close calls                             *)
(*   SpecWait   - the consumer of the command queue while the game closes *)
(*   SpecServer - Server.createGame, the game-logic tasks, the registry   *)
(*   SpecCaps   - join, connect and spectate requests against the caps    *)
(*                and the secrets of a protected game                     *)
(***************************************************************************)
EXTENDS Integers, Sequences, FiniteSets, TLC

\* ---------------------------------------------------------------- bounds
NumPlayers == 2       \* players that may join the game
NumSockets == 2       \* player sockets that may connect
NumSpectators == 2    \* spectator sockets that may connect
MaxEvents == 2        \* events the game logic sends
MaxFrames == 3        \* frames the clients send, over all sockets
MaxBurst == 11        \* command frames the players send in a burst
NumClosers == 2       \* tasks that call Game.Close
NumJoins == 3         \* calls of Game.join on the capped, protected game
NumGames == 3         \* calls of Server.createGame
MaxTime == 4          \* the clock stops here
NumLoggers == 2       \* tasks that call Logger.Log
MaxLogs == 3          \* calls of Logger.Log

\* ------------------------------------------------- configuration, constants
MaxSocketsPerPlayer == 2
MaxPlayersPerGame == 0
MaxSpectatorsPerGame == 1
CmdChanCap == 10
MaxGames == 2
LogQueueCap == 32
KickInactivePlayerDelay == 2
DeleteInactiveGameDelay == 2

\* time.Time{} and the time the server starts at
ZeroTime == 0
StartTime == 1

\* the caps of the ServerConfig the session specifications run under, and
\* a configuration with every per-game cap at one
DefaultConfig == [MaxSocketsPerPlayer |-> MaxSocketsPerPlayer,
                  MaxPlayersPerGame |-> MaxPlayersPerGame,
                  MaxSpectatorsPerGame |-> MaxSpectatorsPerGame]
CapOne == 1
CappedConfig == [MaxSocketsPerPlayer |-> CapOne,
                 MaxPlayersPerGame |-> CapOne,
                 MaxSpectatorsPerGame |-> CapOne]

\* Game.joinSecret of an unprotected and of a protected game (generateSecret)
NoSecret == ""
JoinSecret == "joinSecret"
\* Player.Secret (generateSecret, one per player)
Secret(p) == "secret" \o ToString(p)
\* the id of the game of the session specifications, and an id of no game
GameId == "game"
NoGame == "nogame"

Players == 1..NumPlayers
NoPlayer == 0
PlayerSocks == {<<"s", i>> : i \in 1..NumSockets}
SpectSocks == {<<"v", i>> : i \in 1..NumSpectators}
Sockets == PlayerSocks \cup SpectSocks
None == <<"none", 0>>
Logic == <<"logic", 0>>

\* Players and GameSockets get fresh ids when they are created: they are
\* named in the order of their creation.
Fresh(s, pcs) == \A i \in 1..(s[2] - 1) : pcs[<<s[1], i>>] # "new"

VARIABLES
    players,          \* Game.players (keys)
    joined,           \* number of players created so far
    spectators,       \* Game.spectators (keys)
    sockets,          \* Player.sockets, per player
    socketCount,      \* Player.socketCount, per player
    missedEvents,     \* Player.missedEvents, per player
    sockPlayer,       \* GameSocket.player, per socket
    spectateGame,     \* GameSocket.spectateGame # nil, per socket
    sockPc,           \* position of the task that owns the socket
    wire,             \* per socket: the frames GameSocket.send wrote to the link
    socketsLock,      \* Player.socketsLock: the tasks holding it for reading
    missedEventsLock, \* Player.missedEventsLock: its holder
    playersLock,      \* Game.playersLock: the tasks holding it for reading
    spectatorsLock,   \* Game.spectatorsLock: the tasks holding it for reading
    snd,              \* the game-logic task inside Player.Send / Game.Send
    buffered,         \* history: every frame ever appended to missedEvents
    drainLog,         \* history: every frame addSocket drained, with its socket
    cmdChan,          \* Game.cmdChan
    chanClosed,       \* how often close(g.cmdChan) was executed
    nread,            \* frames read so far, per socket
    rdCmd,            \* cmd returned by the last receiveCommand, per socket
    rdErr,            \* err of the last receiveCommand on a frame, per socket
    lastOk,           \* ok returned by the last NextCommand / WaitForNextCommand
    decoded,          \* history: frames decoded without error, per socket
    enqueued,         \* history: wrappers with a decoded command enqueued, per socket
    lastDeq,          \* history: the last command of each socket that was dequeued
    running,          \* Game.running
    registered,       \* the game is in Server.games
    logClosed,        \* how often close(Logger.queue) of Game.Log was executed
    closePc,          \* position of each task that calls Game.Close
    closeTodo,        \* players left in Close's range over g.players
    panicked,         \* a task panicked (send on / close of a closed channel)
    config,           \* Server.config: the caps of the ServerConfig
    lastCall,         \* which of NextCommand / WaitForNextCommand returned last
    joinSecret,       \* Game.joinSecret ("" for an unprotected game)
    markedAsEmpty,    \* Game.markedAsEmpty (ZeroTime when it is not set)
    joinPc,           \* position / result of each call of Game.join
    joinReq,          \* the join secret each call of Game.join was given
    onPlayerJoined,   \* history: invocations of Game.OnPlayerJoined
    connReq,          \* the request each GameSocket was created for
    onPlayerSocketConnected, \* history: invocations of the hook, per socket
    onSpectatorConnected,    \* history: invocations of the hook, per socket
    games,            \* Server.games (keys)
    gamePc,           \* per createGame call: its result and the game-logic task
    otherPc,          \* per game: a task other than the game-logic task in Close
    gameRunning,      \* Game.running, per game of the registry
    gameChanClosed,   \* how often close(g.cmdChan) was executed, per game
    gameLogClosed,    \* how often Game.Log was closed, per game
    invoked,          \* history: invocations of runGameFunc, per game
    done,             \* GameSocket.done, per socket: nil, open or closed
    onPlayerLeft,     \* history: invocations of Game.OnPlayerLeft
    now,              \* the clock (time.Now())
    lastConnection,   \* Player.lastConnection, per player
    reapPc,           \* position of the reaper task
    reapTodo,         \* players left in the reaper's range over g.players
    reapPlayer,       \* the player the reaper is about to remove
    joinTime,         \* history: the time each Player was created
    lgQueue,          \* Logger.queue
    lgClosed,         \* Logger.closed
    lgQueueClosed,    \* how often close(l.queue) was executed
    lgPc,             \* per task inside Logger.Log: the record it is to send
    lgLogged,         \* number of Logger.Log calls so far
    lgCloseCalls,     \* number of Logger.Close calls so far
    lgOut,            \* history: the records the consumer task fanned out
    lgConsumer        \* position of the logger's consumer task

gameMaps == <<players, joined, spectators>>
playerState == <<sockets, socketCount, missedEvents>>
sockState == <<sockPlayer, spectateGame, sockPc>>
locks == <<socketsLock, missedEventsLock, playersLock, spectatorsLock>>
history == <<buffered, drainLog>>
sendVars == <<gameMaps, playerState, sockState, wire, locks, snd, history>>
readVars == <<nread, rdCmd, rdErr>>
cmdHistory == <<decoded, enqueued, lastDeq>>
cmdVars == <<cmdChan, chanClosed, readVars, lastOk, cmdHistory>>
closeVars == <<running, registered, logClosed, closePc, closeTodo, panicked>>
joinVars == <<joinSecret, markedAsEmpty, joinPc, joinReq, onPlayerJoined>>
hookVars == <<connReq, onPlayerSocketConnected, onSpectatorConnected>>
srvVars == <<games, gamePc, otherPc, gameRunning, gameChanClosed,
             gameLogClosed, invoked>>
extVars == <<config, lastCall, joinVars, hookVars, srvVars>>
timeVars == <<now, lastConnection, reapPc, reapTodo, reapPlayer, joinTime>>
loggerVars == <<lgQueue, lgClosed, lgQueueClosed, lgPc, lgLogged, lgCloseCalls,
                lgOut, lgConsumer>>
moreVars == <<done, onPlayerLeft, timeVars, loggerVars>>
closeVarsButPanicked == <<running, registered, logClosed, closePc, closeTodo>>
vars == <<sendVars, cmdVars, closeVars, extVars, moreVars>>

\* ------------------------------------------------------------- helpers
Firsts(seq) == [i \in 1..Len(seq) |-> seq[i][1]]

RECURSIVE Total(_, _)
Total(f, S) ==
    IF S = {} THEN 0
    ELSE LET x == CHOOSE y \in S : TRUE IN f[x] + Total(f, S \ {x})

Increasing(seq) == \A i, j \in 1..Len(seq) : i < j => seq[i] < seq[j]

IdleSnd == [pc |-> "idle", kind |-> "none", ev |-> 0, p |-> NoPlayer,
            todoP |-> {}, todoS |-> {}, targets |-> {}, gplayers |-> {},
            handled |-> {}, gspect |-> {},
            tried |-> [s \in Sockets |-> 0], err |-> FALSE]

\* ------------------------------------------------------------ initial state
\* newGame: running, empty maps, empty command queue; no socket has
\* connected, no call is under way, the registry of SpecServer is empty.
InitCommon ==
    /\ players = {}
    /\ joined = 0
    /\ spectators = {}
    /\ sockets = [p \in Players |-> {}]
    /\ socketCount = [p \in Players |-> 0]
    /\ missedEvents = [p \in Players |-> <<>>]
    /\ sockPlayer = [s \in Sockets |-> NoPlayer]
    /\ spectateGame = [s \in Sockets |-> FALSE]
    /\ sockPc = [s \in Sockets |-> "new"]
    /\ wire = [s \in Sockets |-> <<>>]
    /\ socketsLock = [p \in Players |-> {}]
    /\ missedEventsLock = [p \in Players |-> None]
    /\ playersLock = {}
    /\ spectatorsLock = {}
    /\ snd = IdleSnd
    /\ buffered = [p \in Players |-> <<>>]
    /\ drainLog = [p \in Players |-> <<>>]
    /\ cmdChan = <<>>
    /\ chanClosed = 0
    /\ nread = [s \in Sockets |-> 0]
    /\ rdCmd = [s \in Sockets |-> 0]
    /\ rdErr = [s \in Sockets |-> "nil"]
    /\ lastOk = TRUE
    /\ decoded = [s \in Sockets |-> 0]
    /\ enqueued = [s \in Sockets |-> 0]
    /\ lastDeq = [s \in Sockets |-> 0]
    /\ running = TRUE
    /\ registered = TRUE
    /\ logClosed = 0
    /\ closePc = [c \in 1..NumClosers |-> "idle"]
    /\ closeTodo = [c \in 1..NumClosers |-> {}]
    /\ panicked = FALSE
    /\ lastCall = "none"
    /\ markedAsEmpty = ZeroTime
    /\ joinPc = [j \in 1..NumJoins |-> "idle"]
    /\ joinReq = [j \in 1..NumJoins |-> NoSecret]
    /\ onPlayerJoined = 0
    /\ connReq = [s \in Sockets |-> <<>>]
    /\ onPlayerSocketConnected = [s \in Sockets |-> 0]
    /\ onSpectatorConnected = [s \in Sockets |-> 0]
    /\ games = {}
    /\ gamePc = [g \in 1..NumGames |-> "none"]
    /\ otherPc = [g \in 1..NumGames |-> "idle"]
    /\ gameRunning = [g \in 1..NumGames |-> FALSE]
    /\ gameChanClosed = [g \in 1..NumGames |-> 0]
    /\ gameLogClosed = [g \in 1..NumGames |-> 0]
    /\ invoked = [g \in 1..NumGames |-> 0]
    /\ done = [s \in Sockets |-> "nil"]
    /\ onPlayerLeft = 0
    /\ now = StartTime
    /\ lastConnection = [p \in Players |-> ZeroTime]
    /\ reapPc = "idle"
    /\ reapTodo = {}
    /\ reapPlayer = NoPlayer
    /\ joinTime = [p \in Players |-> ZeroTime]
    /\ lgQueue = <<>>
    /\ lgClosed = FALSE
    /\ lgQueueClosed = 0
    /\ lgPc = [t \in 1..NumLoggers |-> 0]
    /\ lgLogged = 0
    /\ lgCloseCalls = 0
    /\ lgOut = <<>>
    /\ lgConsumer = "running"

\* the game of the session specifications: unprotected, default caps
InitGame ==
    /\ InitCommon
    /\ config = DefaultConfig
    /\ joinSecret = NoSecret

\* a protected game on a server with every per-game cap at one
InitCapped ==
    /\ InitCommon
    /\ config = CappedConfig
    /\ joinSecret = JoinSecret

\* A panic (a send on, or a close of, a closed channel in a task that does
\* not recover) ends the process: no action is enabled once panicked holds.

\* ------------------------------------------------------------ Game.join
\* Game.join of an unprotected game without a player cap, reached from
\* createPlayerEndpoint once the game was found: neither the secret check
\* nor the cap check applies, markedAsEmpty is cleared, the new Player is
\* inserted under the players write lock and OnPlayerJoined is invoked.
join(p) ==
    /\ ~panicked
    /\ p = joined + 1
    /\ registered
    /\ joinSecret = NoSecret
    /\ ~(config.MaxPlayersPerGame > 0
          /\ Cardinality(players) >= config.MaxPlayersPerGame)
    /\ playersLock = {}
    /\ players' = players \cup {p}
    /\ joined' = p
    /\ markedAsEmpty' = ZeroTime
    /\ onPlayerJoined' = onPlayerJoined + 1
    /\ UNCHANGED <<spectators, playerState, sockState, wire, locks, snd,
                   history, cmdVars, closeVars>>
    /\ joinTime' = [joinTime EXCEPT ![p] = now]
    /\ UNCHANGED <<config, lastCall, joinSecret, joinPc, joinReq, hookVars,
                   srvVars>>
    /\ UNCHANGED <<done, onPlayerLeft, now, lastConnection, reapPc, reapTodo,
                   reapPlayer, loggerVars>>

Joins == 1..NumJoins
JoinSecrets == {NoSecret, JoinSecret, "guess"}

\* g.joinSecret != "" && g.joinSecret != joinSecret
wrongJoinSecretNever(want, given) == FALSE
wrongJoinSecret(want, given) == want # NoSecret /\ want # given

\* Game.join, call j with the join secret given, up to the insert: the
\* secret check ("wrong join secret"), the cap check under the players
\* read lock ("max player count reached"), g.markedAsEmpty = time.Time{}.
joinCheck(j, given) ==
    /\ ~panicked
    /\ joinPc[j] = "idle"
    /\ registered
    /\ joinReq' = [joinReq EXCEPT ![j] = given]
    /\ IF wrongJoinSecret(joinSecret, given)
       THEN /\ joinPc' = [joinPc EXCEPT ![j] = "wrong join secret"]
            /\ UNCHANGED markedAsEmpty
       ELSE IF config.MaxPlayersPerGame > 0
               /\ Cardinality(players) >= config.MaxPlayersPerGame
       THEN /\ joinPc' = [joinPc EXCEPT ![j] = "max player count reached"]
            /\ UNCHANGED markedAsEmpty
       ELSE /\ joinPc' = [joinPc EXCEPT ![j] = "insert"]
            /\ markedAsEmpty' = ZeroTime
    /\ UNCHANGED <<sendVars, cmdVars, closeVars, config, lastCall, joinSecret,
                   onPlayerJoined, hookVars, srvVars>>
    /\ UNCHANGED moreVars

\* Game.join, call j from the insert on: the new Player is inserted under
\* the players write lock, OnPlayerJoined is invoked, the call returns.
joinInsert(j) ==
    /\ ~panicked
    /\ joinPc[j] = "insert"
    /\ playersLock = {}
    /\ players' = players \cup {joined + 1}
    /\ joined' = joined + 1
    /\ onPlayerJoined' = onPlayerJoined + 1
    /\ joinPc' = [joinPc EXCEPT ![j] = "nil"]
    /\ UNCHANGED <<spectators, playerState, sockState, wire, locks, snd,
                   history, cmdVars, closeVars>>
    /\ joinTime' = [joinTime EXCEPT ![joined + 1] = now]
    /\ UNCHANGED <<config, lastCall, joinSecret, markedAsEmpty, joinReq,
                   hookVars, srvVars>>
    /\ UNCHANGED <<done, onPlayerLeft, now, lastConnection, reapPc, reapTodo,
                   reapPlayer, loggerVars>>

\* GameSocket.disconnect, close(s.done) on the channel in state d: closing
\* the channel handleConnection made signals done; closing a nil channel
\* (handleConnection has not run yet) or a closed one panics.  The result
\* is the state of the channel and whether the call panicked.
disconnect(d) == IF d = "open" THEN <<"closed", FALSE>> ELSE <<d, TRUE>>

\* if g.running { g.OnPlayerLeft(player) }: the count of invocations
notifyLeftAlways(r, n) == n + 1
notifyLeft(r, n) == IF r THEN n + 1 ELSE n

\* Game.leave: OnPlayerLeft is invoked when the game is running, the
\* player is deleted under the players write lock, Player.disconnectSocket
\* is called for each of its sockets (GameSocket.disconnect, removal from
\* the map, socketCount--), and markedAsEmpty is set when no player is
\* left.  A panic of disconnect ends the process after the deletion.  No
\* one refers to the record of the removed Player afterwards.
gameLeave(p) ==
    /\ playersLock = {}
    /\ socketsLock[p] = {}
    /\ onPlayerLeft' = notifyLeft(running, onPlayerLeft)
    /\ players' = players \ {p}
    /\ IF \E s \in sockets[p] : disconnect(done[s])[2]
       THEN /\ panicked' = TRUE
            /\ UNCHANGED <<sockets, socketCount, done, markedAsEmpty,
                           lastConnection>>
       ELSE /\ sockets' = [sockets EXCEPT ![p] = {}]
            /\ socketCount' = [socketCount EXCEPT
                                  ![p] = @ - Cardinality(sockets[p])]
            /\ done' = [s \in DOMAIN done |->
                           IF s \in sockets[p] THEN disconnect(done[s])[1]
                           ELSE done[s]]
            /\ lastConnection' = [lastConnection EXCEPT ![p] = ZeroTime]
            /\ markedAsEmpty' = IF players \ {p} = {} THEN now
                                ELSE markedAsEmpty
            /\ UNCHANGED panicked

\* Player.Leave
leave(p) ==
    /\ ~panicked
    /\ p \in players
    /\ gameLeave(p)
    /\ UNCHANGED <<joined, spectators, missedEvents, sockState, wire, locks,
                   snd, history, cmdVars, closeVarsButPanicked>>
    /\ UNCHANGED <<config, lastCall, joinSecret, joinPc, joinReq,
                   onPlayerJoined, hookVars, srvVars>>
    /\ UNCHANGED <<now, reapPc, reapTodo, reapPlayer, joinTime, loggerVars>>

\* ----------------------------------------------------- connect endpoint
\* Server.connectEndpoint, the checks of the request before the upgrade:
\* the player_secret parameter is there, getGame finds the game, GetPlayer
\* finds the player, and the secret is the player's.
connectChecksNoSecret(gameId, p, secret) ==
    IF secret = NoSecret THEN "missing player_secret"
    ELSE IF ~(gameId = GameId /\ registered) THEN "game not found"
    ELSE IF p \notin players THEN "player not found"
    ELSE "ok"
connectChecks(gameId, p, secret) ==
    IF secret = NoSecret THEN "missing player_secret"
    ELSE IF ~(gameId = GameId /\ registered) THEN "game not found"
    ELSE IF p \notin players THEN "player not found"
    ELSE IF Secret(p) # secret THEN "wrong player secret"
    ELSE "ok"

\* Server.connectEndpoint up to the insert of Player.addSocket, for the
\* request (gameId, p, secret): a request that fails a check is refused
\* before a GameSocket exists; otherwise the GameSocket s is created,
\* addSocket checks the cap (SocketCount under the read lock) and sets
\* socket.player = p.
connectEndpoint(s, gameId, p, secret) ==
    /\ ~panicked
    /\ s \in PlayerSocks
    /\ sockPc[s] = "new"
    /\ Fresh(s, sockPc)
    /\ connReq' = [connReq EXCEPT ![s] = <<gameId, p, secret>>]
    /\ IF connectChecks(gameId, p, secret) # "ok"
       THEN /\ sockPc' = [sockPc EXCEPT ![s] = "refused"]
            /\ UNCHANGED sockPlayer
       ELSE IF config.MaxSocketsPerPlayer > 0
               /\ socketCount[p] >= config.MaxSocketsPerPlayer
       THEN /\ sockPc' = [sockPc EXCEPT ![s] = "rejected"]
            /\ UNCHANGED sockPlayer
       ELSE /\ sockPc' = [sockPc EXCEPT ![s] = "insert"]
            /\ sockPlayer' = [sockPlayer EXCEPT ![s] = p]
    /\ UNCHANGED <<gameMaps, playerState, spectateGame, wire,
                   locks, snd, history, cmdVars, closeVars>>
    /\ UNCHANGED <<config, lastCall, joinVars, onPlayerSocketConnected,
                   onSpectatorConnected, srvVars>>
    /\ UNCHANGED moreVars

\* p.socketCount++
countAfterInsertSame(n) == n
countAfterInsert(n) == n + 1

\* Player.addSocket, the insert under the sockets write lock.
addSocketInsert(s) ==
    /\ ~panicked
    /\ sockPc[s] = "insert"
    /\ LET p == sockPlayer[s] IN
       /\ socketsLock[p] = {}
       /\ sockets' = [sockets EXCEPT ![p] = @ \cup {s}]
       /\ socketCount' = [socketCount EXCEPT ![p] = countAfterInsert(@)]
    /\ sockPc' = [sockPc EXCEPT ![s] = "drain"]
    /\ UNCHANGED <<gameMaps, missedEvents, sockPlayer, spectateGame, wire,
                   locks, snd, history, cmdVars, closeVars>>
    /\ UNCHANGED extVars
    /\ UNCHANGED moreVars

\* the frames of buf whose write succeeds: a link that failed a write fails
\* the later ones too, so they are the first k
Written(buf, k) == SubSeq(buf, 1, k)

\* the buffer addSocket leaves behind after the drain
DrainedBufferKept(buf) == buf
DrainedBuffer(buf) == <<>>

\* Player.addSocket with a non-empty buffer, up to its first socket.send(e):
\* the task holds missedEventsLock and is writing to the new socket, which
\* is in p.sockets already.
addSocketSend(s) ==
    /\ ~panicked
    /\ sockPc[s] = "drain"
    /\ missedEventsLock[sockPlayer[s]] = None
    /\ missedEvents[sockPlayer[s]] # <<>>
    /\ missedEventsLock' = [missedEventsLock EXCEPT ![sockPlayer[s]] = s]
    /\ sockPc' = [sockPc EXCEPT ![s] = "draining"]
    /\ UNCHANGED <<gameMaps, playerState, sockPlayer, spectateGame, wire,
                   socketsLock, playersLock, spectatorsLock, snd, history,
                   cmdVars, closeVars, extVars, moreVars>>

\* Player.addSocket, the section under missedEventsLock: every buffered
\* frame is written to the new socket in buffer order (socket.send(e), its
\* error ignored), the buffer is replaced by an empty one; nil is returned,
\* the endpoint starts the read loop (go socket.handleConnection()) and
\* invokes OnPlayerSocketConnected.
addSocketDrain(s) ==
    /\ ~panicked
    /\ sockPc[s] \in {"drain", "draining"}
    /\ LET p == sockPlayer[s]
           buf == missedEvents[p] IN
       /\ missedEventsLock[p] = IF sockPc[s] = "drain" THEN None ELSE s
       /\ missedEventsLock' = [missedEventsLock EXCEPT ![p] = None]
       /\ \E k \in 0..Len(buf) :
             wire' = [wire EXCEPT ![s] = @ \o Written(buf, k)]
       /\ drainLog' = [drainLog EXCEPT ![p] =
                          @ \o [i \in 1..Len(buf) |-> <<buf[i], s>>]]
       /\ missedEvents' = [missedEvents EXCEPT ![p] = DrainedBuffer(@)]
    /\ sockPc' = [sockPc EXCEPT ![s] = "reading"]
    /\ onPlayerSocketConnected' = [onPlayerSocketConnected EXCEPT ![s] = @ + 1]
    /\ done' = [done EXCEPT ![s] = "open"]
    /\ UNCHANGED <<gameMaps, sockets, socketCount, sockPlayer, spectateGame,
                   socketsLock, playersLock, spectatorsLock, snd, buffered,
                   cmdVars, closeVars>>
    /\ UNCHANGED <<config, lastCall, joinVars, connReq, onSpectatorConnected,
                   srvVars>>
    /\ UNCHANGED <<onPlayerLeft, timeVars, loggerVars>>

\* ---------------------------------------------------- spectate endpoint
\* MaxSpectatorsPerGame > 0 && len(g.spectators) >= MaxSpectatorsPerGame
spectatorsFullOffByOne(cap, n) == cap > 0 /\ n > cap
spectatorsFull(cap, n) == cap > 0 /\ n >= cap

\* Server.spectateEndpoint with Game.addSpectator (a request for an unknown
\* game returns before a GameSocket exists): addSpectator checks the cap and
\* inserts the socket under the spectators write lock and then invokes
\* OnSpectatorConnected; when addSpectator fails the endpoint reports the
\* error and still starts the read loop.
spectateEndpoint(s) ==
    /\ ~panicked
    /\ s \in SpectSocks
    /\ sockPc[s] = "new"
    /\ Fresh(s, sockPc)
    /\ registered
    /\ spectatorsLock = {}
    /\ sockPc' = [sockPc EXCEPT ![s] = "reading"]
    /\ IF spectatorsFull(config.MaxSpectatorsPerGame, Cardinality(spectators))
       THEN UNCHANGED <<spectators, spectateGame, onSpectatorConnected>>
       ELSE /\ spectators' = spectators \cup {s}
            /\ spectateGame' = [spectateGame EXCEPT ![s] = TRUE]
            /\ onSpectatorConnected' =
                   [onSpectatorConnected EXCEPT ![s] = @ + 1]
    /\ done' = [done EXCEPT ![s] = "open"]
    /\ UNCHANGED <<players, joined, playerState, sockPlayer, wire,
                   locks, snd, history, cmdVars, closeVars>>
    /\ UNCHANGED <<config, lastCall, joinVars, connReq,
                   onPlayerSocketConnected, srvVars>>
    /\ UNCHANGED <<onPlayerLeft, timeVars, loggerVars>>

\* ------------------------------------------------------------ read loop
\* what conn.ReadMessage can deliver: a frame of one of four kinds, or an
\* error (a close error of the four quiet codes, or any other read error)
Frames == {"command", "badJson", "emptyName", "binary"}
ReadErrors == {"closeError", "readError"}
EmptyCmd == 0

\* GameSocket.receiveCommand on the n-th frame of the link: <<cmd, err>>.
\* A decoded command is named by its position n on the link.
receiveCommand(input, n) ==
    IF input \in ReadErrors THEN <<EmptyCmd, input>>
    ELSE IF input = "binary" THEN <<EmptyCmd, "ErrInvalidMessageType">>
    ELSE IF input \in {"badJson", "emptyName"} THEN <<EmptyCmd, "ErrDecodeFailed">>
    ELSE <<n, "nil">>

\* GameSocket.handleConnection, the err # nil branch of the loop: the four
\* quiet close codes and every unexpected error break, ErrDecodeFailed and
\* ErrInvalidMessageType are logged and control goes on to the dispatch.
afterReceiveBreakOnNonText(err) ==
    IF err \in {"nil", "ErrDecodeFailed"} THEN "handle" ELSE "exit"
afterReceive(err) ==
    IF err = "nil" THEN "handle"
    ELSE IF err = "closeError" THEN "exit"
    ELSE IF err \in {"ErrDecodeFailed", "ErrInvalidMessageType"} THEN "handle"
    ELSE "exit"

\* GameSocket.handleConnection, one iteration of the loop up to the
\* dispatch: receiveCommand and the error branch.  When the branch breaks,
\* the code after the loop runs: Player.disconnectSocket for a player
\* socket (a no-op when the socket is not in the map any more),
\* Game.removeSpectator for a spectator socket; the task ends and nothing
\* refers to the GameSocket any more, so its fields and the record of the
\* frames on its link are dropped.
receive(s, input) ==
    /\ ~panicked
    /\ sockPc[s] = "reading"
    /\ nread' = [nread EXCEPT ![s] = IF input \in Frames THEN @ + 1 ELSE @]
    /\ LET r == receiveCommand(input, nread[s] + 1) IN
       /\ rdErr' = [rdErr EXCEPT ![s] = IF input \in Frames THEN r[2] ELSE "nil"]
       /\ decoded' = [decoded EXCEPT ![s] = IF r[2] = "nil" THEN @ + 1 ELSE @]
       /\ IF afterReceive(r[2]) = "handle"
          THEN /\ rdCmd' = [rdCmd EXCEPT ![s] = r[1]]
               /\ sockPc' = [sockPc EXCEPT ![s] = "handle"]
               /\ UNCHANGED <<spectators, sockets, socketCount, sockPlayer,
                              spectateGame, wire, connReq, done,
                              lastConnection, panicked>>
          ELSE /\ sockPc' = [sockPc EXCEPT ![s] = "closed"]
               /\ connReq' = [connReq EXCEPT ![s] = <<>>]
               /\ wire' = [wire EXCEPT ![s] = <<>>]
               /\ sockPlayer' = [sockPlayer EXCEPT ![s] = NoPlayer]
               /\ spectateGame' = [spectateGame EXCEPT ![s] = FALSE]
               /\ UNCHANGED rdCmd
               /\ IF sockPlayer[s] # NoPlayer
                  THEN LET p == sockPlayer[s] IN
                       /\ socketsLock[p] = {}
                       /\ IF s \in sockets[p]
                          THEN /\ sockets' = [sockets EXCEPT ![p] = @ \ {s}]
                               /\ socketCount' = [socketCount EXCEPT ![p] = @ - 1]
                               /\ done' = [done EXCEPT
                                              ![s] = disconnect(@)[1]]
                               /\ panicked' = disconnect(done[s])[2]
                               /\ lastConnection' =
                                      [lastConnection EXCEPT ![p] = now]
                          ELSE UNCHANGED <<sockets, socketCount, done,
                                           lastConnection, panicked>>
                       /\ UNCHANGED spectators
                  ELSE /\ IF spectateGame[s]
                          THEN /\ spectatorsLock = {}
                               /\ spectators' = spectators \ {s}
                          ELSE UNCHANGED spectators
                       /\ UNCHANGED <<sockets, socketCount, done,
                                      lastConnection, panicked>>
    /\ UNCHANGED <<players, joined, missedEvents, locks, snd, history,
                   cmdChan, chanClosed, lastOk, enqueued, lastDeq,
                   closeVarsButPanicked>>
    /\ UNCHANGED <<config, lastCall, joinVars, onPlayerSocketConnected,
                   onSpectatorConnected, srvVars>>
    /\ UNCHANGED <<onPlayerLeft, now, reapPc, reapTodo, reapPlayer, joinTime,
                   loggerVars>>

\* s.player != nil
isPlayerSocketAlways(pl) == TRUE
isPlayerSocket(pl) == pl # NoPlayer

\* p.game.cmdChan <- w on the open channel of capacity 10: the wrapper is
\* appended, or the sender blocks while the channel is full
chanSendDrop(q, w) ==
    IF Len(q) < CmdChanCap THEN <<"sent", Append(q, w)>> ELSE <<"sent", q>>
chanSend(q, w) ==
    IF Len(q) < CmdChanCap THEN <<"sent", Append(q, w)>> ELSE <<"blocked", q>>

Via(q, s) == SelectSeq(q, LAMBDA w : w.via = s)
Decoded(q) == SelectSeq(q, LAMBDA w : w.cmd # EmptyCmd)

\* GameSocket.handleConnection, the dispatch after the error branch:
\* Player.handleCommand(cmd) for a player socket (a send on the closed
\* channel panics), a warning for any other socket.  The wrapper carries
\* Origin and Cmd; via records the socket it came from.
dispatch(s) ==
    /\ sockPc[s] = "handle"
    /\ ~panicked
    /\ IF isPlayerSocket(sockPlayer[s])
       THEN IF chanClosed > 0
            THEN /\ panicked' = TRUE
                 /\ UNCHANGED <<cmdChan, enqueued, sockPc, rdCmd>>
            ELSE LET w == [origin |-> sockPlayer[s], cmd |-> rdCmd[s], via |-> s]
                     r == chanSend(cmdChan, w) IN
                 /\ r[1] = "sent"
                 /\ cmdChan' = r[2]
                 /\ enqueued' = [enqueued EXCEPT ![s] =
                        @ + Len(Decoded(Via(r[2], s))) - Len(Decoded(Via(cmdChan, s)))]
                 /\ sockPc' = [sockPc EXCEPT ![s] = "reading"]
                 /\ rdCmd' = [rdCmd EXCEPT ![s] = EmptyCmd]
                 /\ UNCHANGED panicked
       ELSE /\ sockPc' = [sockPc EXCEPT ![s] = "reading"]
            /\ rdCmd' = [rdCmd EXCEPT ![s] = EmptyCmd]
            /\ UNCHANGED <<cmdChan, enqueued, panicked>>
    /\ UNCHANGED <<gameMaps, playerState, sockPlayer, spectateGame, wire,
                   locks, snd, history, chanClosed, nread, rdErr, lastOk, decoded,
                   lastDeq, running, registered, logClosed, closePc,
                   closeTodo>>
    /\ UNCHANGED extVars
    /\ UNCHANGED moreVars

\* ------------------------------------------------- Player.Send, Game.Send
\* len(p.sockets) == 0 in sendEncoded
ShouldBufferAlways(socks) == TRUE
ShouldBuffer(socks) == socks = {}

\* p.missedEvents = append(p.missedEvents, data)
AppendMissed(buf, e) == Append(buf, e)

\* Player.Send: the event is encoded, sendEncoded takes the sockets read
\* lock and starts its range over p.sockets.
PlayerSend(p) ==
    /\ ~panicked
    /\ snd.pc = "idle"
    /\ snd.ev < MaxEvents
    /\ p \in players
    /\ socketsLock' = [socketsLock EXCEPT ![p] = @ \cup {Logic}]
    /\ snd' = [IdleSnd EXCEPT !.pc = "sockets", !.kind = "player",
                              !.ev = snd.ev + 1, !.p = p,
                              !.todoS = sockets[p], !.targets = sockets[p]]
    /\ UNCHANGED <<gameMaps, playerState, sockState, wire, missedEventsLock,
                   playersLock, spectatorsLock, history, cmdVars, closeVars>>
    /\ UNCHANGED extVars
    /\ UNCHANGED moreVars

\* Game.Send: the event is encoded, the players read lock is taken and the
\* range over g.players starts.
GameSend ==
    /\ ~panicked
    /\ snd.pc = "idle"
    /\ snd.ev < MaxEvents
    /\ playersLock' = playersLock \cup {Logic}
    /\ snd' = [IdleSnd EXCEPT !.pc = "players", !.kind = "game",
                              !.ev = snd.ev + 1, !.todoP = players,
                              !.gplayers = players]
    /\ UNCHANGED <<gameMaps, playerState, sockState, wire, socketsLock,
                   missedEventsLock, spectatorsLock, history, cmdVars,
                   closeVars>>
    /\ UNCHANGED extVars
    /\ UNCHANGED moreVars

\* Game.Send, one iteration of the range over g.players: p.sendEncoded
\* takes the sockets read lock of p.
GameSendNextPlayer ==
    /\ ~panicked
    /\ snd.pc = "players"
    /\ \E p \in snd.todoP :
        /\ socketsLock' = [socketsLock EXCEPT ![p] = @ \cup {Logic}]
        /\ snd' = [snd EXCEPT !.pc = "sockets", !.p = p,
                              !.todoP = @ \ {p}, !.todoS = sockets[p],
                              !.targets = sockets[p], !.tried = IdleSnd.tried]
    /\ UNCHANGED <<gameMaps, playerState, sockState, wire, missedEventsLock,
                   playersLock, spectatorsLock, history, cmdVars, closeVars>>
    /\ UNCHANGED extVars
    /\ UNCHANGED moreVars

\* Player.sendEncoded, one iteration of the range over p.sockets:
\* socket.send(data); an error is returned at once (the deferred RUnlock
\* runs).  Player.Send drops that error, Game.Send returns it.
sendEncodedWrite ==
    /\ ~panicked
    /\ snd.pc = "sockets"
    /\ \E s \in snd.todoS, ok \in BOOLEAN :
        /\ wire' = [wire EXCEPT ![s] = IF ok THEN Append(@, snd.ev) ELSE @]
        /\ IF ok
           THEN /\ snd' = [snd EXCEPT !.todoS = @ \ {s},
                                      !.tried[s] = @ + 1]
                /\ UNCHANGED <<socketsLock, playersLock>>
           ELSE /\ socketsLock' = [socketsLock EXCEPT ![snd.p] = @ \ {Logic}]
                /\ playersLock' = playersLock \ {Logic}
                /\ snd' = [snd EXCEPT !.pc = "ret", !.todoS = {},
                                      !.tried[s] = @ + 1, !.err = TRUE,
                                      !.gspect = spectators]
    /\ UNCHANGED <<gameMaps, playerState, sockState, missedEventsLock,
                   spectatorsLock, history, cmdVars, closeVars>>
    /\ UNCHANGED extVars
    /\ UNCHANGED moreVars

\* defer p.socketsLock.RUnlock(): the holders of the lock after task t
\* has released it
RUnlockForgotten(holders, t) == holders
RUnlock(holders, t) == holders \ {t}

\* Player.sendEncoded after the range: with no sockets the frame is
\* appended to missedEvents under its lock; the sockets read lock is
\* released and nil returned.
sendEncodedDone ==
    /\ ~panicked
    /\ snd.pc = "sockets"
    /\ snd.todoS = {}
    /\ LET p == snd.p IN
       /\ IF ShouldBuffer(sockets[p])
          THEN /\ missedEventsLock[p] = None
               /\ missedEvents' = [missedEvents EXCEPT ![p] = AppendMissed(@, snd.ev)]
               /\ buffered' = [buffered EXCEPT ![p] = Append(@, snd.ev)]
          ELSE UNCHANGED <<missedEvents, buffered>>
       /\ socketsLock' = [socketsLock EXCEPT ![p] = RUnlock(@, Logic)]
       /\ snd' = [snd EXCEPT !.pc = IF snd.kind = "player" THEN "ret"
                                    ELSE "players",
                             !.handled = @ \cup {p}]
    /\ UNCHANGED <<gameMaps, sockets, socketCount, sockState, wire,
                   missedEventsLock, playersLock, spectatorsLock, drainLog,
                   cmdVars, closeVars>>
    /\ UNCHANGED extVars
    /\ UNCHANGED moreVars

\* Game.Send after the range over g.players: the spectators read lock is
\* taken and the range over g.spectators starts.
GameSendSpectators ==
    /\ ~panicked
    /\ snd.pc = "players"
    /\ snd.todoP = {}
    /\ spectatorsLock' = spectatorsLock \cup {Logic}
    /\ snd' = [snd EXCEPT !.pc = "spectators", !.todoS = spectators,
                          !.gspect = spectators, !.tried = IdleSnd.tried]
    /\ UNCHANGED <<gameMaps, playerState, sockState, wire, socketsLock,
                   missedEventsLock, playersLock, history, cmdVars,
                   closeVars>>
    /\ UNCHANGED extVars
    /\ UNCHANGED moreVars

\* Game.Send, one iteration of the range over g.spectators: s.send(data);
\* an error is returned at once (both deferred RUnlocks run).
GameSendWriteSpectator ==
    /\ ~panicked
    /\ snd.pc = "spectators"
    /\ \E s \in snd.todoS, ok \in BOOLEAN :
        /\ wire' = [wire EXCEPT ![s] = IF ok THEN Append(@, snd.ev) ELSE @]
        /\ IF ok
           THEN /\ snd' = [snd EXCEPT !.todoS = @ \ {s},
                                      !.tried[s] = @ + 1]
                /\ UNCHANGED <<playersLock, spectatorsLock>>
           ELSE /\ snd' = [snd EXCEPT !.pc = "ret", !.todoS = {},
                                      !.tried[s] = @ + 1, !.err = TRUE]
                /\ playersLock' = playersLock \ {Logic}
                /\ spectatorsLock' = spectatorsLock \ {Logic}
    /\ UNCHANGED <<gameMaps, playerState, sockState, socketsLock,
                   missedEventsLock, history, cmdVars, closeVars>>
    /\ UNCHANGED extVars
    /\ UNCHANGED moreVars

\* Game.Send returns nil after the range over g.spectators.
GameSendDone ==
    /\ ~panicked
    /\ snd.pc = "spectators"
    /\ snd.todoS = {}
    /\ snd' = [snd EXCEPT !.pc = "ret"]
    /\ playersLock' = playersLock \ {Logic}
    /\ spectatorsLock' = spectatorsLock \ {Logic}
    /\ UNCHANGED <<gameMaps, playerState, sockState, wire, socketsLock,
                   missedEventsLock, history, cmdVars, closeVars>>
    /\ UNCHANGED extVars
    /\ UNCHANGED moreVars

\* the call has returned to the game logic
SendReturn ==
    /\ ~panicked
    /\ snd.pc = "ret"
    /\ snd' = [IdleSnd EXCEPT !.ev = snd.ev]
    /\ UNCHANGED <<gameMaps, playerState, sockState, wire, locks, history,
                   cmdVars, closeVars>>
    /\ UNCHANGED extVars
    /\ UNCHANGED moreVars

\* ---------------------------------------------------------------- SpecConn
\* connections of players and spectators from the request to the end of
\* the read loop; a request that was accepted goes on to its read loop
NextConn ==
    \/ \E p \in Players : join(p)
    \/ \E p \in Players : leave(p)
    \/ \E s \in PlayerSocks, p \in players :
          connectEndpoint(s, GameId, p, Secret(p))
    \/ \E s \in PlayerSocks : addSocketInsert(s)
    \/ \E s \in PlayerSocks : addSocketDrain(s)
    \/ \E s \in SpectSocks : spectateEndpoint(s)
    \/ \E s \in Sockets, e \in ReadErrors : receive(s, e)

SpecConn ==
    /\ InitGame
    /\ [][NextConn]_vars
    /\ \A s \in PlayerSocks : WF_vars(addSocketInsert(s) \/ addSocketDrain(s))

\* --------------------------------------------------------------- SpecWrite
\* Player.Send by the game logic against the drain of Player.addSocket,
\* with the writes of the drain as steps of their own
NextWrite ==
    \/ \E p \in Players : join(p)
    \/ \E s \in PlayerSocks, p \in players :
          connectEndpoint(s, GameId, p, Secret(p))
    \/ \E s \in PlayerSocks : addSocketInsert(s)
    \/ \E s \in PlayerSocks : addSocketSend(s)
    \/ \E s \in PlayerSocks : addSocketDrain(s)
    \/ \E p \in Players : PlayerSend(p)
    \/ sendEncodedWrite
    \/ sendEncodedDone
    \/ SendReturn

SpecWrite == InitGame /\ [][NextWrite]_vars

\* ---------------------------------------------------------------- SpecSend
NextSend ==
    \/ \E p \in Players : join(p)
    \/ \E s \in PlayerSocks, p \in players :
          connectEndpoint(s, GameId, p, Secret(p))
    \/ \E s \in PlayerSocks : addSocketInsert(s)
    \/ \E s \in PlayerSocks : addSocketDrain(s)
    \/ \E s \in SpectSocks : spectateEndpoint(s)
    \/ \E s \in Sockets, e \in ReadErrors : receive(s, e)
    \/ \E p \in Players : PlayerSend(p)
    \/ GameSend
    \/ GameSendNextPlayer
    \/ sendEncodedWrite
    \/ sendEncodedDone
    \/ GameSendSpectators
    \/ GameSendWriteSpectator
    \/ GameSendDone
    \/ SendReturn

SpecSend == InitGame /\ [][NextSend]_vars


\* ------------------------------------------- NextCommand, WaitForNextCommand
\* <-g.cmdChan on the non-empty channel: <<the wrapper received, the rest>>
chanRecvNewest(q) == <<q[Len(q)], SubSeq(q, 1, Len(q) - 1)>>
chanRecv(q) == <<Head(q), Tail(q)>>

\* Game.NextCommand: the select takes the head of the queue when there is
\* one, reports ok = false on the closed and drained channel, and falls to
\* the default (ok = false) on the open empty channel.
NextCommand ==
    /\ ~panicked
    /\ IF cmdChan # <<>>
       THEN LET r == chanRecv(cmdChan) IN
            /\ cmdChan' = r[2]
            /\ lastOk' = TRUE
            /\ lastDeq' = IF r[1].cmd # EmptyCmd
                          THEN [lastDeq EXCEPT ![r[1].via] = r[1].cmd]
                          ELSE lastDeq
       ELSE /\ lastOk' = FALSE
            /\ UNCHANGED <<cmdChan, lastDeq>>
    /\ UNCHANGED <<sendVars, chanClosed, readVars, decoded, enqueued, closeVars>>
    /\ lastCall' = "next"
    /\ UNCHANGED <<config, joinVars, hookVars, srvVars>>
    /\ UNCHANGED moreVars

\* <-g.cmdChan can proceed: a wrapper is queued, or the channel is closed
chanRecvReadyAlways(q, closed) == TRUE
chanRecvReady(q, closed) == q # <<>> \/ closed > 0

\* Game.WaitForNextCommand: the receive blocks on the open empty channel,
\* takes the head of the queue when there is one, and returns ok = false on
\* the closed and drained channel.
WaitForNextCommand ==
    /\ ~panicked
    /\ chanRecvReady(cmdChan, chanClosed)
    /\ IF cmdChan # <<>>
       THEN LET r == chanRecv(cmdChan) IN
            /\ cmdChan' = r[2]
            /\ lastOk' = TRUE
            /\ lastDeq' = IF r[1].cmd # EmptyCmd
                          THEN [lastDeq EXCEPT ![r[1].via] = r[1].cmd]
                          ELSE lastDeq
       ELSE /\ lastOk' = FALSE
            /\ UNCHANGED <<cmdChan, lastDeq>>
    /\ UNCHANGED <<sendVars, chanClosed, readVars, decoded, enqueued, closeVars>>
    /\ lastCall' = "wait"
    /\ UNCHANGED <<config, joinVars, hookVars, srvVars>>
    /\ UNCHANGED moreVars

\* ----------------------------------------------------------------- SpecCmd
NextCmd ==
    \/ \E p \in Players : join(p)
    \/ \E s \in PlayerSocks, p \in players :
          connectEndpoint(s, GameId, p, Secret(p))
    \/ \E s \in PlayerSocks : addSocketInsert(s)
    \/ \E s \in PlayerSocks : addSocketDrain(s)
    \/ \E s \in SpectSocks : spectateEndpoint(s)
    \/ \E s \in Sockets, f \in Frames :
          Total(nread, Sockets) < MaxFrames /\ receive(s, f)
    \/ \E s \in Sockets : dispatch(s)
    \/ NextCommand
    \/ WaitForNextCommand

SpecCmd == InitGame /\ [][NextCmd]_vars

\* --------------------------------------------------------------- SpecBurst
\* the players' clients send a burst of command frames while the game logic
\* takes commands at its own pace
NextBurst ==
    \/ \E p \in Players : join(p)
    \/ \E s \in PlayerSocks, p \in players :
          connectEndpoint(s, GameId, p, Secret(p))
    \/ \E s \in PlayerSocks : addSocketInsert(s)
    \/ \E s \in PlayerSocks : addSocketDrain(s)
    \/ \E s \in PlayerSocks :
          Total(nread, Sockets) < MaxBurst /\ receive(s, "command")
    \/ \E s \in PlayerSocks : dispatch(s)
    \/ NextCommand
    \/ WaitForNextCommand

SpecBurst == InitGame /\ [][NextBurst]_vars


\* --------------------------------------------------------------- Game.Close
Closers == 1..NumClosers
ReaperTask == 1

\* if !g.running { return nil }
closeCheck(c) ==
    /\ ~panicked
    /\ closePc[c] = "idle"
    /\ closePc' = [closePc EXCEPT ![c] = IF running THEN "set" ELSE "done"]
    /\ UNCHANGED <<sendVars, cmdVars, running, registered, logClosed,
                   closeTodo, panicked>>
    /\ UNCHANGED extVars
    /\ UNCHANGED moreVars

\* g.running = false
closeSetRunning(c) ==
    /\ ~panicked
    /\ closePc[c] = "set"
    /\ running' = FALSE
    /\ closePc' = [closePc EXCEPT ![c] = "remove"]
    /\ UNCHANGED <<sendVars, cmdVars, registered, logClosed, closeTodo,
                   panicked>>
    /\ UNCHANGED extVars
    /\ UNCHANGED moreVars

\* g.server.removeGame(g), then the range over g.players starts
closeRemoveGame(c) ==
    /\ ~panicked
    /\ closePc[c] = "remove"
    /\ registered' = FALSE
    /\ closeTodo' = [closeTodo EXCEPT ![c] = players]
    /\ closePc' = [closePc EXCEPT ![c] = "leave"]
    /\ UNCHANGED <<sendVars, cmdVars, running, logClosed, panicked>>
    /\ UNCHANGED extVars
    /\ UNCHANGED moreVars

\* one iteration of the range over g.players (an entry deleted before the
\* range reaches it is not produced): Game.leave deletes the player under
\* the players write lock and calls Player.disconnectSocket for each of its
\* sockets, which empties the player's socket map, and sets markedAsEmpty
\* when no player is left.
closeLeave(c) ==
    /\ ~panicked
    /\ closePc[c] = "leave"
    /\ \E p \in closeTodo[c] \cap players :
          /\ gameLeave(p)
          /\ closeTodo' = [closeTodo EXCEPT ![c] = @ \ {p}]
    /\ UNCHANGED <<joined, spectators, missedEvents, sockState, wire, locks,
                   snd, history, cmdVars, running, registered, logClosed,
                   closePc>>
    /\ UNCHANGED <<config, lastCall, joinSecret, joinPc, joinReq,
                   onPlayerJoined, hookVars, srvVars>>
    /\ UNCHANGED <<now, reapPc, reapTodo, reapPlayer, joinTime, loggerVars>>

\* close(g.cmdChan) after the range: closing a closed channel panics
closeChan(c) ==
    /\ ~panicked
    /\ closePc[c] = "leave"
    /\ closeTodo[c] \cap players = {}
    /\ IF chanClosed > 0
       THEN /\ panicked' = TRUE
            /\ UNCHANGED <<chanClosed, closePc>>
       ELSE /\ chanClosed' = chanClosed + 1
            /\ closePc' = [closePc EXCEPT ![c] = "log"]
            /\ UNCHANGED panicked
    /\ UNCHANGED <<sendVars, cmdChan, readVars, lastOk, cmdHistory, running,
                   registered, logClosed, closeTodo>>
    /\ UNCHANGED extVars
    /\ UNCHANGED moreVars

\* g.Log.Close(): Logger.Close sets closed and closes the logger's queue,
\* which panics when the queue is closed already; Close returns nil
closeLog(c) ==
    /\ ~panicked
    /\ closePc[c] = "log"
    /\ IF logClosed > 0
       THEN /\ panicked' = TRUE
            /\ UNCHANGED <<logClosed, closePc>>
       ELSE /\ logClosed' = logClosed + 1
            /\ closePc' = [closePc EXCEPT ![c] = "done"]
            /\ UNCHANGED panicked
    /\ UNCHANGED <<sendVars, cmdVars, running, registered, closeTodo>>
    /\ UNCHANGED extVars
    /\ UNCHANGED moreVars

\* ---------------------------------------------------------------- SpecClose
NextClose ==
    \/ \E p \in Players : join(p)
    \/ \E s \in PlayerSocks, p \in players :
          connectEndpoint(s, GameId, p, Secret(p))
    \/ \E s \in PlayerSocks : addSocketInsert(s)
    \/ \E s \in PlayerSocks : addSocketDrain(s)
    \/ \E s \in PlayerSocks, e \in ReadErrors : receive(s, e)
    \/ \E c \in Closers : closeCheck(c)
    \/ \E c \in Closers : closeSetRunning(c)
    \/ \E c \in Closers : closeRemoveGame(c)
    \/ \E c \in Closers : closeLeave(c)
    \/ \E c \in Closers : closeChan(c)
    \/ \E c \in Closers : closeLog(c)

SpecClose == InitGame /\ [][NextClose]_vars

\* ---------------------------------------------------------------- SpecWait
\* the game logic takes commands with WaitForNextCommand (and polls with
\* NextCommand) while the players' read loops feed the queue and the game
\* is closed.  Every task that has started a step of Close, a dispatch or a
\* receive from the queue goes on when it can.
NextWait ==
    \/ \E p \in Players : join(p)
    \/ \E s \in PlayerSocks, p \in players :
          connectEndpoint(s, GameId, p, Secret(p))
    \/ \E s \in PlayerSocks : addSocketInsert(s)
    \/ \E s \in PlayerSocks : addSocketDrain(s)
    \/ \E s \in PlayerSocks :
          Total(nread, Sockets) < MaxFrames /\ receive(s, "command")
    \/ \E s \in PlayerSocks : dispatch(s)
    \/ NextCommand
    \/ WaitForNextCommand
    \/ \E c \in Closers : closeCheck(c)
    \/ \E c \in Closers : closeSetRunning(c)
    \/ \E c \in Closers : closeRemoveGame(c)
    \/ \E c \in Closers : closeLeave(c)
    \/ \E c \in Closers : closeChan(c)
    \/ \E c \in Closers : closeLog(c)

closeStep(c) ==
    \/ closeSetRunning(c)
    \/ closeRemoveGame(c)
    \/ closeLeave(c)
    \/ closeChan(c)
    \/ closeLog(c)

FairWait ==
    /\ WF_vars(WaitForNextCommand)
    /\ \A c \in Closers : WF_vars(closeStep(c))
    /\ \A s \in PlayerSocks : WF_vars(dispatch(s))

SpecWait == InitGame /\ [][NextWait]_vars /\ FairWait

\* ------------------------------------------------------ Server.createGame
GameIds == 1..NumGames
Tasks == {"logic", "other"}
sessionVars == <<sendVars, cmdVars, closeVars, config, lastCall, joinVars,
                 hookVars>>

\* s.config.MaxGames > 0 && len(s.games) >= s.config.MaxGames
gamesFullOffByOne(n) == MaxGames > 0 /\ n > MaxGames
gamesFull(n) == MaxGames > 0 /\ n >= MaxGames

\* Server.createGame, the g-th call, under gamesLock from the cap check to
\* the return: it fails with "max game count reached", or it registers the
\* new running game and launches the task go func() { s.runGameFunc(game,
\* config); game.Close() }().
createGame(g) ==
    /\ ~panicked
    /\ gamePc[g] = "none"
    /\ \A i \in 1..(g - 1) : gamePc[i] # "none"
    /\ IF gamesFull(Cardinality(games))
       THEN /\ gamePc' = [gamePc EXCEPT ![g] = "rejected"]
            /\ UNCHANGED <<games, gameRunning>>
       ELSE /\ games' = games \cup {g}
            /\ gameRunning' = [gameRunning EXCEPT ![g] = TRUE]
            /\ gamePc' = [gamePc EXCEPT ![g] = "launched"]
    /\ UNCHANGED <<sessionVars, otherPc, gameChanClosed, gameLogClosed, invoked>>
    /\ UNCHANGED moreVars

\* the launched task starts: s.runGameFunc(game, config) is invoked
runGameFunc(g) ==
    /\ ~panicked
    /\ gamePc[g] = "launched"
    /\ invoked' = [invoked EXCEPT ![g] = @ + 1]
    /\ gamePc' = [gamePc EXCEPT ![g] = "logic"]
    /\ UNCHANGED <<sessionVars, games, otherPc, gameRunning, gameChanClosed,
                   gameLogClosed>>
    /\ UNCHANGED moreVars

\* s.runGameFunc returns: the task goes on to game.Close()
runGameFuncReturn(g) ==
    /\ ~panicked
    /\ gamePc[g] = "logic"
    /\ gamePc' = [gamePc EXCEPT ![g] = "close"]
    /\ UNCHANGED <<sessionVars, games, otherPc, gameRunning, gameChanClosed,
                   gameLogClosed, invoked>>
    /\ UNCHANGED moreVars

\* Server.getGame(id): the game is found
getGame(g) == g \in games

\* the position of task t of game g in Game.Close
taskPc(g, t) == IF t = "logic" THEN gamePc[g] ELSE otherPc[g]
setTaskPc(g, t, pc) ==
    IF t = "logic"
    THEN gamePc' = [gamePc EXCEPT ![g] = pc] /\ UNCHANGED otherPc
    ELSE otherPc' = [otherPc EXCEPT ![g] = pc] /\ UNCHANGED gamePc

\* Game.Close of game g by task t, if !g.running { return nil }: the
\* game-logic task calls it when the callback has returned, another task
\* (the reaper, a handler) on a game it found in the registry.
gameCloseCheck(g, t) ==
    /\ ~panicked
    /\ IF t = "logic" THEN gamePc[g] = "close"
                      ELSE otherPc[g] = "idle" /\ getGame(g)
    /\ setTaskPc(g, t, IF gameRunning[g] THEN "set" ELSE "done")
    /\ UNCHANGED <<sessionVars, games, gameRunning, gameChanClosed,
                   gameLogClosed, invoked>>
    /\ UNCHANGED moreVars

\* g.running = false
gameCloseSetRunning(g, t) ==
    /\ ~panicked
    /\ taskPc(g, t) = "set"
    /\ gameRunning' = [gameRunning EXCEPT ![g] = FALSE]
    /\ setTaskPc(g, t, "remove")
    /\ UNCHANGED <<sessionVars, games, gameChanClosed, gameLogClosed, invoked>>
    /\ UNCHANGED moreVars

\* g.server.removeGame(g): delete(s.games, id) under gamesLock; the games
\* of this specification have no players, the range over g.players is empty
removeGame(g, t) ==
    /\ ~panicked
    /\ taskPc(g, t) = "remove"
    /\ games' = games \ {g}
    /\ setTaskPc(g, t, "chan")
    /\ UNCHANGED <<sessionVars, gameRunning, gameChanClosed, gameLogClosed,
                   invoked>>
    /\ UNCHANGED moreVars

\* close(g.cmdChan): closing a closed channel panics
gameCloseChan(g, t) ==
    /\ ~panicked
    /\ taskPc(g, t) = "chan"
    /\ IF gameChanClosed[g] > 0
       THEN /\ panicked' = TRUE
            /\ UNCHANGED <<gameChanClosed, gamePc, otherPc>>
       ELSE /\ gameChanClosed' = [gameChanClosed EXCEPT ![g] = @ + 1]
            /\ setTaskPc(g, t, "log")
            /\ UNCHANGED panicked
    /\ UNCHANGED <<sendVars, cmdVars, running, registered, logClosed, closePc,
                   closeTodo, config, lastCall, joinVars, hookVars, games,
                   gameRunning, gameLogClosed, invoked>>
    /\ UNCHANGED moreVars

\* g.Log.Close(): closing the closed logger queue panics; Close returns
gameCloseLog(g, t) ==
    /\ ~panicked
    /\ taskPc(g, t) = "log"
    /\ IF gameLogClosed[g] > 0
       THEN /\ panicked' = TRUE
            /\ UNCHANGED <<gameLogClosed, gamePc, otherPc>>
       ELSE /\ gameLogClosed' = [gameLogClosed EXCEPT ![g] = @ + 1]
            /\ setTaskPc(g, t, "done")
            /\ UNCHANGED panicked
    /\ UNCHANGED <<sendVars, cmdVars, running, registered, logClosed, closePc,
                   closeTodo, config, lastCall, joinVars, hookVars, games,
                   gameRunning, gameChanClosed, invoked>>
    /\ UNCHANGED moreVars

\* -------------------------------------------------------------- SpecServer
\* the registry and the lifecycle of each game: createGame calls, the
\* game-logic tasks, and Close by them and by other tasks.  A launched task
\* runs, and a task inside Close goes on; a callback need not return.
NextServer ==
    \/ \E g \in GameIds : createGame(g)
    \/ \E g \in GameIds : runGameFunc(g)
    \/ \E g \in GameIds : runGameFuncReturn(g)
    \/ \E g \in GameIds, t \in Tasks : gameCloseCheck(g, t)
    \/ \E g \in GameIds, t \in Tasks : gameCloseSetRunning(g, t)
    \/ \E g \in GameIds, t \in Tasks : removeGame(g, t)
    \/ \E g \in GameIds, t \in Tasks : gameCloseChan(g, t)
    \/ \E g \in GameIds, t \in Tasks : gameCloseLog(g, t)

gameCloseStep(g, t) ==
    \/ t = "logic" /\ gameCloseCheck(g, t)
    \/ gameCloseSetRunning(g, t)
    \/ removeGame(g, t)
    \/ gameCloseChan(g, t)
    \/ gameCloseLog(g, t)

FairServer ==
    /\ \A g \in GameIds : WF_vars(runGameFunc(g))
    /\ \A g \in GameIds, t \in Tasks : WF_vars(gameCloseStep(g, t))

SpecServer == InitGame /\ [][NextServer]_vars /\ FairServer

\* ---------------------------------------------------------------- SpecCaps
\* a protected game on a server with every per-game cap at one: join calls
\* with right and wrong join secrets, connect requests with right and wrong
\* game ids, player ids and player secrets, spectators, sockets that
\* disconnect and players that leave.  The join calls are numbered in the
\* order they start, and no more calls are given the right secret than
\* there are players.
PlayerSecrets == {NoSecret} \cup {Secret(p) : p \in Players}
Admitted == {j \in Joins : joinPc[j] \in {"insert", "nil"}}

NextCaps ==
    \/ \E j \in Joins, given \in JoinSecrets :
          /\ \A i \in 1..(j - 1) : joinPc[i] # "idle"
          /\ given = joinSecret => Cardinality(Admitted) < NumPlayers
          /\ joinCheck(j, given)
    \/ \E j \in Joins : joinInsert(j)
    \/ \E p \in Players : leave(p)
    \/ \E s \in PlayerSocks, gameId \in {GameId, NoGame}, p \in Players,
          secret \in PlayerSecrets : connectEndpoint(s, gameId, p, secret)
    \/ \E s \in PlayerSocks : addSocketInsert(s)
    \/ \E s \in PlayerSocks : addSocketDrain(s)
    \/ \E s \in SpectSocks : spectateEndpoint(s)
    \/ \E s \in Sockets, e \in ReadErrors : receive(s, e)

SpecCaps == InitCapped /\ [][NextCaps]_vars

\* -------------------------------------------------------------- SpecShutdown
\* Game.Close by concurrent tasks against Game.join calls (which hold the
\* Game they obtained from getGame across their steps), Player.Leave and
\* connecting sockets.
NextShutdown ==
    \/ \E j \in Joins :
          /\ \A i \in 1..(j - 1) : joinPc[i] # "idle"
          /\ Cardinality(Admitted) < NumPlayers
          /\ joinCheck(j, NoSecret)
    \/ \E j \in Joins : joinInsert(j)
    \/ \E p \in Players : leave(p)
    \/ \E s \in PlayerSocks, p \in players :
          connectEndpoint(s, GameId, p, Secret(p))
    \/ \E s \in PlayerSocks : addSocketInsert(s)
    \/ \E s \in PlayerSocks : addSocketDrain(s)
    \/ \E c \in Closers : closeCheck(c)
    \/ \E c \in Closers : closeSetRunning(c)
    \/ \E c \in Closers : closeRemoveGame(c)
    \/ \E c \in Closers : closeLeave(c)
    \/ \E c \in Closers : closeChan(c)
    \/ \E c \in Closers : closeLog(c)

SpecShutdown == InitGame /\ [][NextShutdown]_vars

\* ------------------------------------------------------------------ reaper
\* a time stamp one unit further in the past, where the clock cannot go
\* on: the zero time stays what it is, and stamps at StartTime, which are
\* further back than any delay, stay there
aged(t) == IF t > StartTime THEN t - 1 ELSE t

\* the clock advances by one unit; at MaxTime it is the time stamps that
\* move into the past instead
Tick ==
    /\ ~panicked
    /\ IF now < MaxTime
       THEN /\ now' = now + 1
            /\ UNCHANGED <<markedAsEmpty, lastConnection, joinTime>>
       ELSE /\ markedAsEmpty' = aged(markedAsEmpty)
            /\ lastConnection' = [p \in Players |-> aged(lastConnection[p])]
            /\ joinTime' = [p \in Players |-> aged(joinTime[p])]
            /\ UNCHANGED now
    /\ UNCHANGED <<sendVars, cmdVars, closeVars, config, lastCall, joinSecret,
                   joinPc, joinReq, onPlayerJoined, hookVars, srvVars, done,
                   onPlayerLeft, reapPc, reapTodo, reapPlayer, loggerVars>>

\* what changes in no step of the reaper outside Game.leave and Game.Close
reaperFrame == <<joined, spectators, missedEvents, sockState, wire, locks,
                 snd, history, cmdVars, config, lastCall, joinSecret, joinPc,
                 joinReq, onPlayerJoined, hookVars, srvVars, now, joinTime,
                 loggerVars>>

\* a tick of killTicker: Server.removeInactiveGamesPlayers reaches the game
\* in its range over s.games and calls Game.kickInactivePlayers, whose
\* range over g.players starts (with KickInactivePlayerDelay > 0)
reaperTick ==
    /\ ~panicked
    /\ reapPc = "idle"
    /\ registered
    /\ reapTodo' = IF KickInactivePlayerDelay > 0 THEN players ELSE {}
    /\ reapPc' = "kick"
    /\ UNCHANGED <<reaperFrame, players, sockets, socketCount, markedAsEmpty,
                   closeVars, done, onPlayerLeft, lastConnection, reapPlayer>>

\* p.socketCount == 0 && time.Since(p.lastConnection) >= delay; the zero
\* time is longer ago than any delay
inactive(count, last, t) ==
    count = 0 /\ (last = ZeroTime \/ t - last >= KickInactivePlayerDelay)

\* Game.kickInactivePlayers, one iteration of the range over g.players up
\* to the test, under the read locks of the players and of the player's
\* sockets (an entry deleted before the range reaches it is not produced);
\* the range ends when no entry is left
kickInactivePlayers ==
    /\ ~panicked
    /\ reapPc = "kick"
    /\ IF reapTodo \cap players = {}
       THEN /\ reapPc' = "empty"
            /\ reapTodo' = {}
            /\ UNCHANGED reapPlayer
       ELSE \E p \in reapTodo \cap players :
               /\ reapTodo' = reapTodo \ {p}
               /\ IF inactive(socketCount[p], lastConnection[p], now)
                  THEN /\ reapPc' = "leave"
                       /\ reapPlayer' = p
                  ELSE UNCHANGED <<reapPc, reapPlayer>>
    /\ UNCHANGED <<reaperFrame, players, sockets, socketCount, markedAsEmpty,
                   closeVars, done, onPlayerLeft, lastConnection>>

\* g.leave(p) after both read locks were released; the range goes on
kickLeave ==
    /\ ~panicked
    /\ reapPc = "leave"
    /\ gameLeave(reapPlayer)
    /\ reapPc' = "kick"
    /\ reapPlayer' = NoPlayer
    /\ UNCHANGED <<reaperFrame, closeVarsButPanicked, reapTodo>>

\* time.Now().After(g.markedAsEmpty.Add(DeleteInactiveGameDelay))
emptyTooLong(marked, t) == t > marked + DeleteInactiveGameDelay

\* Server.removeInactiveGamesPlayers after kickInactivePlayers: with
\* DeleteInactiveGameDelay > 0 a game without players is marked as empty
\* when it is not yet, and is closed when it was marked too long ago
removeInactiveGames ==
    /\ ~panicked
    /\ reapPc = "empty"
    /\ IF DeleteInactiveGameDelay > 0 /\ players = {}
       THEN IF markedAsEmpty = ZeroTime
            THEN /\ markedAsEmpty' = now
                 /\ reapPc' = "idle"
            ELSE /\ reapPc' = IF emptyTooLong(markedAsEmpty, now)
                              THEN "close" ELSE "idle"
                 /\ UNCHANGED markedAsEmpty
       ELSE /\ reapPc' = "idle"
            /\ UNCHANGED markedAsEmpty
    /\ UNCHANGED <<reaperFrame, players, sockets, socketCount, closeVars,
                   done, onPlayerLeft, lastConnection, reapTodo, reapPlayer>>

\* g.Close() called by the reaper has returned: the tick is over
reaperCloseReturn ==
    /\ ~panicked
    /\ reapPc = "close"
    /\ closePc[ReaperTask] = "done"
    /\ reapPc' = "idle"
    /\ UNCHANGED <<reaperFrame, players, sockets, socketCount, markedAsEmpty,
                   closeVars, done, onPlayerLeft, lastConnection, reapTodo,
                   reapPlayer>>

\* the reaper on one game, with joins, leaves and sockets that connect and
\* disconnect while the clock advances; Game.Close is called by the reaper
NextReaper ==
    \/ Tick
    \/ \E j \in Joins :
          /\ \A i \in 1..(j - 1) : joinPc[i] # "idle"
          /\ Cardinality(Admitted) < NumPlayers
          /\ joinCheck(j, NoSecret)
    \/ \E j \in Joins : joinInsert(j)
    \/ \E p \in Players : leave(p)
    \/ \E s \in PlayerSocks, p \in players :
          connectEndpoint(s, GameId, p, Secret(p))
    \/ \E s \in PlayerSocks : addSocketInsert(s)
    \/ \E s \in PlayerSocks : addSocketDrain(s)
    \/ \E s \in PlayerSocks : receive(s, "closeError")
    \/ reaperTick
    \/ kickInactivePlayers
    \/ kickLeave
    \/ removeInactiveGames
    \/ reapPc = "close" /\ closeCheck(ReaperTask)
    \/ closeSetRunning(ReaperTask)
    \/ closeRemoveGame(ReaperTask)
    \/ closeLeave(ReaperTask)
    \/ closeChan(ReaperTask)
    \/ closeLog(ReaperTask)
    \/ reaperCloseReturn

\* time passes, killTicker keeps ticking, the reaper task keeps running
\* and a call of join that passed its checks goes on to its insert
FairReaper ==
    /\ WF_vars(Tick)
    /\ WF_vars(\E j \in Joins : joinInsert(j))
    /\ WF_vars(reaperTick)
    /\ WF_vars(kickInactivePlayers)
    /\ WF_vars(kickLeave)
    /\ WF_vars(removeInactiveGames)
    /\ WF_vars(reapPc = "close" /\ closeCheck(ReaperTask))
    /\ WF_vars(closeSetRunning(ReaperTask))
    /\ WF_vars(closeRemoveGame(ReaperTask))
    /\ WF_vars(closeLeave(ReaperTask))
    /\ WF_vars(closeChan(ReaperTask))
    /\ WF_vars(closeLog(ReaperTask))
    /\ WF_vars(reaperCloseReturn)

SpecReaper == InitGame /\ [][NextReaper]_vars /\ FairReaper

\* --------------------------------------------------------------- SpecLocks
\* the tasks that take the guards: Game.Send of the game logic, join, leave
\* with its disconnectSocket, addSocket with its drain on the one socket
\* that connects, Close and the reaper
LockSocket == <<"s", 1>>

NextLocks ==
    \/ \E p \in Players : join(p)
    \/ \E p \in Players : leave(p)
    \/ \E p \in players : connectEndpoint(LockSocket, GameId, p, Secret(p))
    \/ addSocketInsert(LockSocket)
    \/ addSocketSend(LockSocket)
    \/ addSocketDrain(LockSocket)
    \/ GameSend
    \/ GameSendNextPlayer
    \/ sendEncodedWrite
    \/ sendEncodedDone
    \/ GameSendSpectators
    \/ GameSendDone
    \/ SendReturn
    \/ reaperTick
    \/ kickInactivePlayers
    \/ kickLeave
    \/ removeInactiveGames
    \/ closeCheck(ReaperTask)
    \/ closeSetRunning(ReaperTask)
    \/ closeRemoveGame(ReaperTask)
    \/ closeLeave(ReaperTask)
    \/ closeChan(ReaperTask)
    \/ closeLog(ReaperTask)

\* a task that holds a guard and can run is scheduled: the sender inside
\* Game.Send and the task inside the drain of Player.addSocket
FairLocks ==
    /\ WF_vars(GameSendNextPlayer)
    /\ WF_vars(sendEncodedWrite)
    /\ WF_vars(sendEncodedDone)
    /\ WF_vars(GameSendSpectators)
    /\ WF_vars(GameSendDone)
    /\ WF_vars(SendReturn)
    /\ WF_vars(addSocketDrain(LockSocket))

SpecLocks == InitGame /\ [][NextLocks]_vars /\ FairLocks

\* ------------------------------------------------------------------ Logger
Loggers == 1..NumLoggers
NoRecord == 0
sessionAndServerVars == <<sendVars, cmdVars, extVars, done, onPlayerLeft,
                          timeVars>>

\* Logger.Log by task t, up to the test of l.closed: the record (named by
\* its number) is formatted, and dropped when the logger is closed
LoggerLogCheck(t) ==
    /\ ~panicked
    /\ lgPc[t] = NoRecord
    /\ lgLogged < MaxLogs
    /\ lgLogged' = lgLogged + 1
    /\ lgPc' = [lgPc EXCEPT ![t] = IF lgClosed THEN NoRecord ELSE lgLogged + 1]
    /\ UNCHANGED <<sessionAndServerVars, closeVars, lgQueue, lgClosed,
                   lgQueueClosed, lgCloseCalls, lgOut, lgConsumer>>

\* Logger.Log by task t, l.queue <- debugMessage{...}: the send blocks on
\* the full queue and panics on the closed one
LoggerLogSend(t) ==
    /\ ~panicked
    /\ lgPc[t] # NoRecord
    /\ IF lgQueueClosed > 0
       THEN /\ panicked' = TRUE
            /\ UNCHANGED <<lgQueue, lgPc>>
       ELSE /\ Len(lgQueue) < LogQueueCap
            /\ lgQueue' = Append(lgQueue, lgPc[t])
            /\ lgPc' = [lgPc EXCEPT ![t] = NoRecord]
            /\ UNCHANGED panicked
    /\ UNCHANGED <<sessionAndServerVars, closeVarsButPanicked, lgClosed,
                   lgQueueClosed, lgLogged, lgCloseCalls, lgOut, lgConsumer>>

\* the consumer task of NewLogger, one iteration: it takes the next record
\* and fans it out to the debug sockets, or ends on the closed, drained queue
LoggerConsume ==
    /\ ~panicked
    /\ lgConsumer = "running"
    /\ lgQueue # <<>> \/ lgQueueClosed > 0
    /\ IF lgQueue # <<>>
       THEN /\ lgOut' = Append(lgOut, Head(lgQueue))
            /\ lgQueue' = Tail(lgQueue)
            /\ UNCHANGED lgConsumer
       ELSE /\ lgConsumer' = "done"
            /\ UNCHANGED <<lgOut, lgQueue>>
    /\ UNCHANGED <<sessionAndServerVars, closeVars, lgClosed, lgQueueClosed,
                   lgPc, lgLogged, lgCloseCalls>>

\* closing the queue a second time panics
closeQueue(n) == IF n > 0 THEN <<n, TRUE>> ELSE <<n + 1, FALSE>>

\* Logger.Close: l.closed = true; close(l.queue)
LoggerClose ==
    /\ ~panicked
    /\ lgCloseCalls < NumClosers
    /\ lgCloseCalls' = lgCloseCalls + 1
    /\ lgClosed' = TRUE
    /\ LET r == closeQueue(lgQueueClosed) IN
       /\ lgQueueClosed' = r[1]
       /\ panicked' = r[2]
    /\ UNCHANGED <<sessionAndServerVars, closeVarsButPanicked, lgQueue, lgPc,
                   lgLogged, lgOut, lgConsumer>>

\* ----------------------------------------------------------------- SpecLog
\* one Logger: tasks that log, calls of Close (Game.Close, Player.Leave),
\* and the consumer task, which runs whenever it can
NextLog ==
    \/ \E t \in Loggers : LoggerLogCheck(t)
    \/ \E t \in Loggers : LoggerLogSend(t)
    \/ LoggerConsume
    \/ LoggerClose

SpecLog == InitGame /\ [][NextLog]_vars /\ WF_vars(LoggerConsume)

\* ------------------------------------------------------ claims on SpecSend

C2_SendOrder == \A s \in PlayerSocks : Increasing(wire[s])

\* C3 (each socket exactly once): when Player.Send returns for an event that
\* was sent while the player had n > 0 sockets, GameSocket.send was called
\* with the frame exactly once on each of these sockets.
C3_EachSocketOnce ==
    (snd.pc = "ret" /\ snd.kind = "player" /\ snd.targets # {})
        => \A s \in snd.targets : snd.tried[s] = 1

\* C4 (broadcast fan-out): when Game.Send returns, sendEncoded has completed
\* for every player of the game (all its sockets written, or the frame
\* buffered), except at most for the player on which a write failed, and
\* every spectator connection was written the frame once: a failed write
\* keeps the event from no other player and from no spectator.
C4_GameFanOut ==
    (snd.pc = "ret" /\ snd.kind = "game")
        => /\ \A p \in snd.gplayers \ {snd.p} : p \in snd.handled
           /\ ~snd.err => snd.handled = snd.gplayers
           /\ \A v \in snd.gspect : snd.tried[v] = 1

\* ----------------------------------------- claims on SpecBurst and SpecCmd

\* the socket is still attached to its owner
Attached(s) ==
    IF sockPlayer[s] # NoPlayer THEN s \in sockets[sockPlayer[s]]
    ELSE spectateGame[s] => s \in spectators

\* the reader of s holds a decoded command it has not handed over yet
Pending(s) == IF sockPc[s] = "handle" /\ rdCmd[s] # EmptyCmd THEN 1 ELSE 0

\* C5 (exactly one wrapper per decoded command): on every player socket the
\* number of wrappers enqueued for decoded commands, plus the command the
\* reader is still holding (blocked on the full queue), equals the number of
\* frames decoded; a wrapper carries the player of the socket it came from;
\* no command is in the queue twice or again after it was taken; the queue
\* never holds more than its capacity.
C5_ExactlyOneWrapper ==
    /\ Len(cmdChan) <= CmdChanCap
    /\ \A s \in PlayerSocks : enqueued[s] + Pending(s) = decoded[s]
    /\ \A i \in 1..Len(cmdChan) :
          /\ cmdChan[i].origin = sockPlayer[cmdChan[i].via]
          /\ cmdChan[i].cmd > lastDeq[cmdChan[i].via]
          /\ \A j \in 1..Len(cmdChan) :
                (i # j /\ cmdChan[i].via = cmdChan[j].via)
                    => cmdChan[i].cmd # cmdChan[j].cmd

\* the queue is full and a reader is blocked with one more decoded command
C5_Witness ==
    /\ Len(cmdChan) = CmdChanCap
    /\ \E s \in PlayerSocks :
          /\ Pending(s) = 1
          /\ decoded[s] = enqueued[s] + 1
          /\ chanSend(cmdChan, [origin |-> sockPlayer[s], cmd |-> rdCmd[s],
                                via |-> s])[1] = "blocked"

\* C6 (per-connection command order): the commands of one socket that are
\* in the queue are in the order in which the socket received them, and all
\* of them were received after the last command of that socket the game
\* logic has taken, so NextCommand / WaitForNextCommand return them in
\* receive order.
C6_CommandOrder ==
    \A s \in PlayerSocks :
        LET q == Decoded(Via(cmdChan, s)) IN
        /\ \A i, j \in 1..Len(q) : i < j => q[i].cmd < q[j].cmd
        /\ \A i \in 1..Len(q) : q[i].cmd > lastDeq[s]

\* the first command of one socket was taken; the queue holds a command of
\* another socket followed by a later command of the first one
C6_Witness ==
    \E s, t \in PlayerSocks :
        /\ s # t
        /\ lastDeq[s] >= 1
        /\ Len(cmdChan) = 2
        /\ cmdChan[1].via = t /\ cmdChan[1].cmd # EmptyCmd
        /\ cmdChan[2].via = s /\ cmdChan[2].cmd > lastDeq[s]

\* C7 (decode failure is only logged): no wrapper is enqueued for a frame
\* that failed to decode, so the queue holds no wrapper with the empty
\* command.
C7_NoWrapperForBadFrame ==
    \A i \in 1..Len(cmdChan) : cmdChan[i].cmd # EmptyCmd

C9_SpectatorIsolation ==
    /\ \A i \in 1..Len(cmdChan) :
          cmdChan[i].via \in PlayerSocks /\ cmdChan[i].origin \in Players
    /\ \A v \in SpectSocks : enqueued[v] = 0 /\ lastDeq[v] = 0

\* a spectator socket sent a well-formed command frame that went through
\* the dispatch, while the queue holds a player's command
C9_Witness ==
    \E v \in SpectSocks :
        /\ decoded[v] >= 1
        /\ sockPc[v] = "reading"
        /\ \E i \in 1..Len(cmdChan) : cmdChan[i].cmd # EmptyCmd

\* ------------------------------------------------------ claims on SpecClose

\* C10 (Close is idempotent under concurrency): no call of Game.Close
\* fails, the command queue and the logger's queue are each closed at most
\* once, and a call that has returned has left the game stopped.
C10_CloseIdempotent ==
    /\ ~panicked
    /\ chanClosed <= 1
    /\ logClosed <= 1
    /\ \A c \in Closers : closePc[c] = "done" => ~running

\* ------------------------------------------------------ claims on SpecWait

\* C11 (close releases the waiting consumer): once a call of Game.Close has
\* passed its running check, the consumer in WaitForNextCommand eventually
\* gets ok = false from the drained queue, every command enqueued before
\* having been yielded first.
C11_CloseReleasesWaiter ==
    (\E c \in Closers : closePc[c] = "set")
        ~> (lastCall = "wait" /\ lastOk = FALSE /\ cmdChan = <<>>)

\* C12 as stated (ok = false means drained and closed): whenever the last
\* call of NextCommand or WaitForNextCommand returned ok = false, the queue
\* is empty and the game has been closed.
C12_FalseMeansClosed ==
    (lastCall # "none" /\ lastOk = FALSE) => (cmdChan = <<>> /\ chanClosed > 0)

\* C12 (amended): NextCommand is never blocked; ok = false from
\* WaitForNextCommand means the queue is drained and closed; a call of
\* NextCommand that returns ok = false found the queue empty and leaves it
\* as it is, whether or not the game has been closed.
C12_FalseFromWaitMeansClosed ==
    /\ [](~panicked => ENABLED NextCommand)
    /\ []((lastCall = "wait" /\ lastOk = FALSE)
            => (cmdChan = <<>> /\ chanClosed > 0))
    /\ [][(lastCall' = "next" /\ lastOk' = FALSE /\ <<lastCall, lastOk>>' # <<lastCall, lastOk>>)
            => (cmdChan = <<>> /\ cmdChan' = <<>>)]_vars

\* a call of WaitForNextCommand returned ok = false after a command had been
\* taken from the queue
C12_Witness ==
    /\ lastCall = "wait"
    /\ lastOk = FALSE
    /\ chanClosed > 0
    /\ \E s \in PlayerSocks : lastDeq[s] > 0

\* ---------------------------------------------------- claims on SpecServer

\* C13 (one callback per game, close on return): the game-logic callback
\* is never invoked twice for a game and never for a rejected createGame;
\* the task a successful createGame launched eventually invokes it; and
\* once the callback has returned, the game eventually is not running and
\* getGame does not find it.
C13_LogicOnceThenClosed ==
    /\ [](\A g \in GameIds :
            /\ invoked[g] <= 1
            /\ gamePc[g] \in {"none", "rejected"} => invoked[g] = 0)
    /\ \A g \in GameIds : (gamePc[g] = "launched") ~> (invoked[g] = 1)
    /\ \A g \in GameIds :
          (gamePc[g] = "close") ~> (~gameRunning[g] /\ ~getGame(g))

\* C14 (registry cap): the registry never holds more than MaxGames games; a
\* createGame call that fails changes neither the registry nor any game,
\* and no game-logic task is launched for it.
C14_MaxGames ==
    /\ [](MaxGames > 0 => Cardinality(games) <= MaxGames)
    /\ [](\A g \in GameIds : gamePc[g] = "rejected" =>
              /\ ~getGame(g)
              /\ ~gameRunning[g]
              /\ invoked[g] = 0)
    /\ [][\A g \in GameIds :
             (gamePc[g] = "none" /\ gamePc'[g] = "rejected")
                => UNCHANGED <<games, gameRunning, invoked>>]_vars

\* a createGame call was rejected on the full registry
C14_Witness ==
    /\ gamePc[3] = "rejected"
    /\ games = {1, 2}
    /\ invoked[1] = 1

\* ------------------------------------------------------ claims on SpecCaps

\* C15 (player cap): with MaxPlayersPerGame > 0 the game never has more
\* players than the cap.
C15_MaxPlayers ==
    config.MaxPlayersPerGame > 0
        => Cardinality(players) <= config.MaxPlayersPerGame

\* C16 (socket cap): with MaxSocketsPerPlayer > 0 no player's socketCount
\* exceeds the cap.
C16_MaxSockets ==
    config.MaxSocketsPerPlayer > 0
        => \A p \in Players : socketCount[p] <= config.MaxSocketsPerPlayer

\* C17 (spectator cap and hook): with MaxSpectatorsPerGame > 0 the game
\* never has more spectators than the cap; OnSpectatorConnected is invoked
\* for a socket only in the spectate request that creates it, once when
\* addSpectator inserted the socket and not at all when it failed.
C17_MaxSpectators ==
    /\ [](config.MaxSpectatorsPerGame > 0
            => Cardinality(spectators) <= config.MaxSpectatorsPerGame)
    /\ [][\A s \in SpectSocks :
             IF sockPc[s] = "new" /\ sockPc'[s] # "new"
             THEN onSpectatorConnected'[s] = IF s \in spectators' THEN 1 ELSE 0
             ELSE onSpectatorConnected'[s] = onSpectatorConnected[s]]_vars

\* one spectator was added and the hook invoked for it, a second spectate
\* request found the game full and the hook was not invoked for it
C17_Witness ==
    \E s, t \in SpectSocks :
        /\ s \in spectators
        /\ onSpectatorConnected[s] = 1
        /\ sockPc[t] = "reading"
        /\ ~spectateGame[t]
        /\ onSpectatorConnected[t] = 0

\* C18 (wrong join secret): on a game whose joinSecret is set, only calls
\* of Game.join that were given that secret get past the secret check; a
\* call given anything else returns "wrong join secret" in one step that
\* changes neither the players nor markedAsEmpty and does not invoke
\* OnPlayerJoined, which is invoked once per installed player.
C18_WrongJoinSecret ==
    /\ [](joinSecret # NoSecret => \A j \in Joins :
            /\ joinPc[j] \in {"insert", "nil", "max player count reached"}
                  => joinReq[j] = joinSecret
            /\ joinPc[j] = "wrong join secret" => joinReq[j] # joinSecret)
    /\ [](onPlayerJoined = joined)
    /\ [][\A j \in Joins :
             (joinSecret # NoSecret /\ joinPc[j] = "idle"
                /\ joinPc'[j] # "idle" /\ joinReq'[j] # joinSecret)
             => /\ joinPc'[j] = "wrong join secret"
                /\ UNCHANGED <<players, joined, markedAsEmpty,
                               onPlayerJoined>>]_vars

\* the last player has left, so markedAsEmpty is set, and a join call with
\* a wrong secret has failed and left it set
C18_Witness ==
    /\ joined > 0
    /\ players = {}
    /\ markedAsEmpty # ZeroTime
    /\ \E j \in Joins : joinPc[j] = "wrong join secret" /\ joinReq[j] = "guess"

\* C19 (connect needs the player's secret): every socket in a player's
\* socket map was created for a request that named the game, that player
\* and that player's Secret; a refused request attaches no socket;
\* OnPlayerSocketConnected is invoked at most once per socket and only for
\* a socket that was attached on such a request.
C19_ConnectNeedsSecret ==
    /\ \A p \in Players : \A s \in sockets[p] :
          /\ sockPc[s] \notin {"new", "refused", "rejected"}
          /\ connReq[s] = <<GameId, p, Secret(p)>>
    /\ \A s \in PlayerSocks :
          /\ onPlayerSocketConnected[s] <= 1
          /\ sockPc[s] \in {"new", "refused", "rejected", "insert", "drain"}
                => onPlayerSocketConnected[s] = 0
          /\ sockPc[s] = "refused"
                => /\ sockPlayer[s] = NoPlayer
                   /\ \A p \in Players : s \notin sockets[p]

\* a request with another player's secret was refused and a request with
\* the player's own secret attached a socket
C19_Witness ==
    \E s, t \in PlayerSocks, p \in players :
        /\ sockPc[s] = "refused"
        /\ connReq[s][1] = GameId
        /\ connReq[s][2] = p
        /\ connReq[s][3] \notin {NoSecret, Secret(p)}
        /\ t \in sockets[p]
        /\ onPlayerSocketConnected[t] = 1

\* C20 (socketCount is the size of the socket map): every player's
\* socketCount equals the number of entries of its sockets map.  Each
\* section under the sockets write lock is one step, so every state is one
\* in which no task is inside such a section.
C20_SocketCount ==
    \A p \in Players : socketCount[p] = Cardinality(sockets[p])

\* a socket was attached, another was attached and detached again
C20_Witness ==
    \E p \in Players, s, t \in PlayerSocks :
        /\ s \in sockets[p]
        /\ socketCount[p] = 1
        /\ sockPc[t] = "closed"
        /\ onPlayerSocketConnected[t] = 1

\* ---------------------------------------------- further claims on SpecSend

\* C22 (no missed events while attached): for every player with
\* socketCount > 0 and no addSocket call between its insert and its return,
\* missedEvents is empty.
C22_NoMissedWhileAttached ==
    \A p \in Players :
        (socketCount[p] > 0
           /\ \A s \in PlayerSocks : ~(sockPlayer[s] = p /\ sockPc[s] = "drain"))
        => missedEvents[p] = <<>>

\* events were buffered for a player without sockets and drained to a
\* socket whose addSocket has returned, and a later event was sent while
\* the socket was attached
C22_Witness ==
    \E p \in Players, s \in PlayerSocks :
        /\ s \in sockets[p]
        /\ sockPc[s] = "reading"
        /\ drainLog[p] # <<>>
        /\ snd.pc = "idle"
        /\ snd.ev > Len(buffered[p])

\* ------------------------------------------------------- claims on SpecLog

\* C27 (Logger.Close idempotent, consumer ends): after a call of
\* Logger.Close the queue is closed exactly once and the logger is marked
\* closed, a second call does not fail, and the consumer task eventually
\* ends with every record that was enqueued fanned out.
C27_LoggerCloseIdempotent ==
    /\ [](lgCloseCalls >= 1 => (lgClosed /\ lgQueueClosed = 1))
    /\ [](lgCloseCalls >= 2 => ~panicked)
    /\ (lgCloseCalls >= 1) ~> (lgConsumer = "done" /\ lgQueue = <<>>)

\* ------------------------------------------------- further claims on SpecCaps
\* C26: GameSocket.disconnect never fails, also when it is called before the
\* connection's read loop has started or a second time: no Player.Leave step,
\* which disconnects every socket of the player, ends in a panic, and a
\* socket that was disconnected has its done channel closed.
C26_DisconnectIdempotent ==
    [][(\E p \in Players : leave(p)) => ~panicked']_vars

\* --------------------------------------------------- claims on SpecShutdown
\* C28 as stated (order of the side effects of Close): the players are
\* removed by Close while the game is still registered, each removal
\* invoking OnPlayerLeft, and the game is deregistered only when no player
\* is left.
C28_CloseOrder ==
    [][/\ (\E c \in Closers : closeLeave(c))
            => (registered /\ onPlayerLeft' = onPlayerLeft + 1)
       /\ (registered /\ ~registered') => players = {}]_vars

\* C28 (order of the side effects of Close, as the code has it): a call of
\* Close that passed its check sets running to false, then deregisters the
\* game, then removes each remaining player and detaches its sockets
\* without invoking OnPlayerLeft, and only then closes the command queue.
C28_CloseOrderOfCode ==
    [][/\ (registered /\ ~registered') => ~running
       /\ (\E c \in Closers : closeLeave(c))
            => (~running /\ ~registered /\ onPlayerLeft' = onPlayerLeft)
       /\ chanClosed' > chanClosed
            => (~running /\ ~registered
                /\ \E c \in Closers : closePc[c] = "leave"
                                       /\ closeTodo[c] \cap players = {})]_vars

\* a call of Close has removed a player with an attached socket, unnotified,
\* and has closed the queue
C28_Witness ==
    /\ \E c \in Closers : closePc[c] = "log"
    /\ joined > 0
    /\ players = {}
    /\ onPlayerLeft = 0
    /\ \E s \in PlayerSocks : done[s] = "closed"

\* C29 (registry invariant): a registered game, which is what getGame
\* finds, has running = TRUE, and a game that was deregistered is never
\* registered again.
C29_RegistryInvariant ==
    /\ [](registered => running)
    /\ [][~registered => ~registered']_vars

\* C30 (a closed game accepts no players): once a call of Close has run to
\* its end, the player map is empty and stays empty, whatever calls of join
\* are in progress.
C30_ClosedGameStaysEmpty == logClosed > 0 => players = {}

\* ----------------------------------------------------- claims on SpecReaper
\* C21 (markedAsEmpty): in every state at rest, with no join, Close or
\* reaper tick in progress, markedAsEmpty is set if and only if the game has
\* no players.
C21_MarkedIffEmpty ==
    (/\ \A j \in Joins : joinPc[j] # "insert"
     /\ reapPc = "idle"
     /\ \A c \in Closers : closePc[c] \in {"idle", "done"})
    => ((markedAsEmpty # ZeroTime) <=> (players = {}))

\* C23 (kick liveness): a player whose sockets have all been detached for
\* longer than KickInactivePlayerDelay (since it joined, when it never had
\* one) is eventually removed from the game, unless a socket is attached.
C23_KickLiveness ==
    \A p \in Players :
        (/\ p \in players
         /\ socketCount[p] = 0
         /\ now - (IF lastConnection[p] = ZeroTime THEN joinTime[p]
                   ELSE lastConnection[p]) > KickInactivePlayerDelay)
        ~> (p \notin players \/ socketCount[p] > 0)

\* C24 (kick safety): when the reaper removes a player, the player has no
\* attached socket and has had none for at least KickInactivePlayerDelay
\* (since it joined, when it never had one).
C24_KickSafety ==
    [][\A p \in Players :
          (kickLeave /\ reapPlayer = p /\ p \in players)
          => (/\ socketCount[p] = 0
              /\ now - (IF lastConnection[p] = ZeroTime THEN joinTime[p]
                        ELSE lastConnection[p]) >= KickInactivePlayerDelay)]_vars

\* C25 (empty-game liveness): a registered game without players, also one
\* nobody ever joined, is eventually removed from the registry, unless a
\* player joins.
C25_EmptyGameLiveness ==
    (registered /\ players = {}) ~> (~registered \/ players # {})

\* ------------------------------------------------ further claims on SpecWait
\* C38 (no send on the closed command queue): whenever the read loop of a
\* player socket executes the send of Player.handleCommand, the queue has
\* not been closed, and the step does not end in a panic.
C38_NoSendOnClosedQueue ==
    [][\A s \in PlayerSocks :
          (dispatch(s) /\ isPlayerSocket(sockPlayer[s]))
          => (chanClosed = 0 /\ ~panicked')]_vars

\* ------------------------------------------------- further claims on SpecLog
\* C40 (no record after Logger.Close): whenever Logger.Log executes its send
\* on the queue, the queue has not been closed, and the step does not end
\* in a panic.
C40_NoLogAfterClose ==
    [][\A t \in Loggers :
          LoggerLogSend(t) => (lgQueueClosed = 0 /\ ~panicked')]_vars

\* --------------------------------------------- further claims on SpecReaper
\* C33 (the reaper re-verifies): whenever Game.kickInactivePlayers removes
\* a player, that player is still a member of the game and has no attached
\* socket.
C33_KickReverifies ==
    [][kickLeave => (reapPlayer \in players /\ socketCount[reapPlayer] = 0)]_vars

\* C34 (the reaper closes empty games only): whenever the Close called by
\* the reaper takes effect, the game has no players and has been marked as
\* empty for at least DeleteInactiveGameDelay.
C34_CloseOnlyWhenEmpty ==
    [][closeSetRunning(ReaperTask)
          => (/\ players = {}
              /\ markedAsEmpty # ZeroTime
              /\ now - markedAsEmpty >= DeleteInactiveGameDelay)]_vars

\* C37 (OnPlayerLeft once per departure): OnPlayerLeft has been invoked at
\* most as often as players have departed from the game.
C37_LeftOncePerDeparture == onPlayerLeft <= joined - Cardinality(players)

\* --------------------------------------------- further claims on SpecCaps
\* C36 (no use after remove): whenever Player.addSocket attaches a socket
\* to a player, that player is a member of the game.
C36_NoAttachAfterRemove ==
    [][\A s \in PlayerSocks :
          addSocketInsert(s) => sockPlayer[s] \in players]_vars

\* ---------------------------------------------------------- claims on SpecWrite
\* C39 (one writer per connection): whenever Player.sendEncoded writes a
\* frame to a socket, no other task is inside GameSocket.send on that
\* socket, in particular not the drain of Player.addSocket.
C39_SingleWriter ==
    [][\A s \in PlayerSocks :
          snd'.tried[s] > snd.tried[s] => sockPc[s] # "draining"]_vars

\* ----------------------------------------------------------- claims on SpecConn
\* C35 (done is signaled): for every connection, once its read loop has
\* exited, GameSocket.disconnect is eventually executed on it: its done
\* channel is closed, which ends its ping task, and its link is closed.
C35_DoneSignaled ==
    \A s \in Sockets : (sockPc[s] = "closed") ~> (done[s] = "closed")

\* ------------------------------------------- further claims on SpecShutdown
\* C32 (guarded access): no task writes Game.players (the insert of join,
\* the delete of leave) while another task is iterating over it, as the
\* range of Game.Close does while entries are left to visit.
C32_GuardedAccess ==
    [][((\E j \in Joins : joinInsert(j)) \/ (\E p \in Players : leave(p)))
          => \A c \in Closers :
                ~(closePc[c] = "leave" /\ closeTodo[c] \cap players # {})]_vars

\* ---------------------------------------------------------- claims on SpecLocks
\* the guards the sender holds, in the order of the hierarchy: players (1),
\* spectators (2), sockets of a player (3)
heldBySender ==
    (IF Logic \in playersLock THEN {1} ELSE {})
        \cup (IF Logic \in spectatorsLock THEN {2} ELSE {})
        \cup (IF \E p \in Players : Logic \in socketsLock[p] THEN {3} ELSE {})

====
